---- MODULE Spec2Model ----
(***************************************************************************)
(* CV Analyzer backend (backend/main.py): the four request handlers        *)
(* upload_cv, get_cv_analysis, update_cv_info and list_cvs over the three  *)
(* tables users, cv_files and extracted_info and the uploads/ directory.   *)
(***************************************************************************)
EXTENDS Naturals, Sequences, FiniteSets

VARIABLES users, cv_files, extracted_info, disk, inodes, req, nupd, last

vars == <<users, cv_files, extracted_info, disk, inodes, req, nupd, last>>

(* Bounds of the model. *)
MaxUploads == 2
MaxUpdates == 1

(***************************************************************************)
(* Python values.  One record shape for all of them: ty names the type,    *)
(* s holds a str, l a list of str (or the tokens of a JSON text), n an int.*)
(* "absent" marks a key a dict does not have.                              *)
(***************************************************************************)
PyNone == [ty |-> "none", s |-> "", l |-> <<>>, n |-> 0]
Absent == [ty |-> "absent", s |-> "", l |-> <<>>, n |-> 0]
Str(x) == [ty |-> "str", s |-> x, l |-> <<>>, n |-> 0]
List(xs) == [ty |-> "list", s |-> "", l |-> xs, n |-> 0]
Int(k) == [ty |-> "int", s |-> "", l |-> <<>>, n |-> k]
Text(toks) == [ty |-> "text", s |-> "", l |-> toks, n |-> 0]

(* Python truthiness, as used by `if extracted_info.education`. *)
Truthy(v) ==
    CASE v.ty = "none" -> FALSE
      [] v.ty = "absent" -> FALSE
      [] v.ty = "str" -> v.s # ""
      [] v.ty = "list" -> v.l # <<>>
      [] v.ty = "int" -> v.n # 0
      [] v.ty = "text" -> v.l # <<>>

(* dict.get(key, default) *)
DictGet(d, key, default) == IF d[key].ty = "absent" THEN default ELSE d[key]

(***************************************************************************)
(* json.dumps / json.loads.  A JSON text is a sequence of tokens; a string *)
(* literal is the three tokens quote, contents, quote.                     *)
(***************************************************************************)
RECURSIVE JsonItems(_)
JsonItems(xs) ==
    IF xs = <<>> THEN <<>>
    ELSE IF Len(xs) = 1 THEN <<"\"", xs[1], "\"">>
    ELSE <<"\"", xs[1], "\"", ",">> \o JsonItems(Tail(xs))

JsonTokens(v) ==
    CASE v.ty = "none" -> <<"null">>
      [] v.ty = "str" -> <<"\"", v.s, "\"">>
      [] v.ty = "list" -> <<"[">> \o JsonItems(v.l) \o <<"]">>

JsonDumps(v) == Text(JsonTokens(v))

JsonLoads(t) ==
    LET toks == t.l IN
    CASE toks = <<"null">> -> PyNone
      [] toks[1] = "\"" -> Str(toks[2])
      [] toks[1] = "[" ->
            LET inner == SubSeq(toks, 2, Len(toks) - 1)
                count == (Len(inner) + 1) \div 4
            IN List([i \in 1..count |-> inner[4 * (i - 1) + 2]])

(***************************************************************************)
(* The request inputs.  A filename is its sequence of characters; a        *)
(* document is its sequence of bytes ("%" is the format's magic header,    *)
(* the other bytes render as the words of the text).                       *)
(***************************************************************************)
Filenames ==
    { <<"a", ".", "p", "d", "f">>,
      <<"b", ".", "D", "O", "C", "X">>,
      <<"c", ".", "t", "x", "t">> }

Docs ==
    { <<"%", "n1", "e1", "s1">>,
      <<"%", "e2">>,
      <<"%">>,
      <<"x">> }

UserIds == {PyNone, Int(1)}

(* str.lower(), character by character *)
LowerChar(c) ==
    CASE c = "P" -> "p" [] c = "D" -> "d" [] c = "F" -> "f" [] c = "O" -> "o"
      [] c = "C" -> "c" [] c = "X" -> "x" [] c = "T" -> "t"
      [] OTHER -> c

Lower(str) == [i \in 1..Len(str) |-> LowerChar(str[i])]

(* str.endswith(suffix) *)
EndsWith(str, suffix) ==
    /\ Len(str) >= Len(suffix)
    /\ SubSeq(str, Len(str) - Len(suffix) + 1, Len(str)) = suffix

SupportedSuffixes ==
    { <<".", "p", "d", "f">>, <<".", "d", "o", "c">>, <<".", "d", "o", "c", "x">> }

(* file.filename.lower().endswith(('.pdf', '.doc', '.docx')) *)
SupportedType(filename) ==
    \E suffix \in SupportedSuffixes : EndsWith(Lower(filename), suffix)

(* os.path.join(upload_dir, file.filename) *)
FilePath(filename) == <<"uploads">> \o filename

(***************************************************************************)
(* cv_analyzer.extract_text_from_file and nlp_processor.analyze_cv_text.   *)
(* Both are deterministic functions of their input.                        *)
(***************************************************************************)
ExtractionFails(bytes) == bytes = <<>> \/ Head(bytes) # "%"

ExtractText(bytes) == Tail(bytes)

AnalysisFails(text) == text = <<>>

NameWords == {"n1"}
EmailWords == {"e1", "e2"}
SkillWords == {"s1"}

IsNameWord(w) == w \in NameWords
IsEmailWord(w) == w \in EmailWords
IsSkillWord(w) == w \in SkillWords

FirstOr(ws, default) == IF ws = <<>> THEN default ELSE Str(Head(ws))

AnalyzeCvText(text) ==
    [ name |-> FirstOr(SelectSeq(text, IsNameWord), Absent),
      email |-> FirstOr(SelectSeq(text, IsEmailWord), Absent),
      phone |-> PyNone,
      address |-> Str(""),
      education |-> List(<<>>),
      experience |-> Absent,
      skills |-> IF SelectSeq(text, IsSkillWord) = <<>> THEN Absent
                 ELSE List(SelectSeq(text, IsSkillWord)),
      languages |-> Absent ]

NoData ==
    [ name |-> Absent, email |-> Absent, phone |-> Absent, address |-> Absent,
      education |-> Absent, experience |-> Absent, skills |-> Absent,
      languages |-> Absent ]

ScalarFields == {"name", "email", "phone", "address"}
ListFields == {"education", "experience", "skills", "languages"}
CandidateFields == ScalarFields \cup ListFields
FieldOrder ==
    <<"name", "email", "phone", "address", "education", "experience", "skills",
      "languages">>

(* json.dumps(cv_data): the keys the dict has, in order *)
RECURSIVE JsonMembers(_, _)
JsonMembers(d, keys) ==
    IF keys = <<>> THEN <<>>
    ELSE IF d[Head(keys)].ty = "absent" THEN JsonMembers(d, Tail(keys))
    ELSE LET rest == JsonMembers(d, Tail(keys))
             member == <<"\"", Head(keys), "\"", ":">> \o JsonTokens(d[Head(keys)])
         IN IF rest = <<>> THEN member ELSE member \o <<",">> \o rest

JsonDumpsDict(d) == Text(<<"{">> \o JsonMembers(d, FieldOrder) \o <<"}">>)

(***************************************************************************)
(* Rows of the three tables.  A table is the sequence of its rows in       *)
(* insertion order; ids are assigned in sequence and no row is deleted.    *)
(* The timestamps uploaded_at and created_at are left out.                 *)
(***************************************************************************)
NextId(table) == Len(table) + 1

NewUser(id, cv_data) ==
    [ id |-> id,
      name |-> DictGet(cv_data, "name", Str("Unknown")),
      email |-> DictGet(cv_data, "email", Str("")) ]

NewCVFile(id, user_id, filename, content, extracted_text) ==
    [ id |-> id,
      user_id |-> user_id,
      filename |-> filename,
      file_path |-> FilePath(filename),
      file_size |-> Len(content),
      extracted_text |-> extracted_text ]

NewExtractedInfo(id, cv_file_id, cv_data) ==
    [ id |-> id,
      cv_file_id |-> Int(cv_file_id),
      name |-> DictGet(cv_data, "name", Str("")),
      email |-> DictGet(cv_data, "email", Str("")),
      phone |-> DictGet(cv_data, "phone", Str("")),
      address |-> DictGet(cv_data, "address", Str("")),
      education |-> JsonDumps(DictGet(cv_data, "education", List(<<>>))),
      experience |-> JsonDumps(DictGet(cv_data, "experience", List(<<>>))),
      skills |-> JsonDumps(DictGet(cv_data, "skills", List(<<>>))),
      languages |-> JsonDumps(DictGet(cv_data, "languages", List(<<>>))),
      raw_data |-> JsonDumpsDict(cv_data) ]

(***************************************************************************)
(* The uploads/ directory: disk maps a path to the inode it names (0: no   *)
(* such file), inodes holds each inode's bytes.  An open file object keeps *)
(* its inode whether or not a path still names it.                         *)
(***************************************************************************)
Paths == { FilePath(f) : f \in Filenames }

(* open(file_path, "wb"): create the file or truncate the one there *)
OpenInode(path) == IF disk[path] = 0 THEN Len(inodes) + 1 ELSE disk[path]

OpenInodes(path) ==
    IF disk[path] = 0 THEN Append(inodes, <<>>)
    ELSE [inodes EXCEPT ![disk[path]] = <<>>]

(* buffer.write(content) on a file object at position 0, then close *)
WriteAt0(old, content) ==
    content \o SubSeq(old, Len(content) + 1, Len(old))

NoUpdate ==
    [ name |-> Absent, email |-> Absent, phone |-> Absent, address |-> Absent,
      education |-> Absent, experience |-> Absent, skills |-> Absent,
      languages |-> Absent, cv_file_id |-> Absent, raw_data |-> Absent,
      bogus |-> Absent ]

NoCvFileBody == [id |-> 0, filename |-> <<>>, file_size |-> 0]

NoInfoBody ==
    [ id |-> 0, name |-> Absent, email |-> Absent, phone |-> Absent,
      address |-> Absent, education |-> Absent, experience |-> Absent,
      skills |-> Absent, languages |-> Absent ]

(* The most recent handler step: the request, and the status and body of   *)
(* its response (status 0: the request has not returned yet).              *)
Response(op, arg, status) ==
    [ op |-> op, arg |-> arg, status |-> status, update_data |-> NoUpdate,
      cv_file |-> NoCvFileBody, extracted_info |-> NoInfoBody, cvs |-> <<>> ]

(***************************************************************************)
(* upload_cv                                                               *)
(***************************************************************************)
Requests == 1..MaxUploads

IdleRequest ==
    [ pc |-> "idle", filename |-> <<>>, content |-> <<>>, user_id |-> PyNone,
      fd |-> 0, fault |-> "none", status |-> 0, data |-> NoData, cv_file_id |-> 0,
      extracted_info_id |-> 0, made_user |-> 0, made_file |-> 0, made_info |-> 0 ]

(* except Exception as e: raise HTTPException(status_code=500, ...) *)
ExceptHandler(raised) == 500

Faults == {"none", "commit_user", "commit_file", "commit_info", "remove"}

(* The request up to `content = await file.read()`, where the handler      *)
(* yields to the event loop with the file already opened for writing.      *)
(* Requests take their slots in order.                                     *)
upload_cv_open(r, filename, content, user_id) ==
    /\ req[r].pc = "idle"
    /\ \A q \in Requests : q < r => req[q].pc # "idle"
    /\ IF ~SupportedType(filename)
       THEN /\ req' = [req EXCEPT ![r] =
                        [@ EXCEPT !.pc = "done", !.filename = filename,
                                  !.content = content, !.user_id = user_id,
                                  !.status = ExceptHandler(400)]]
            /\ last' = Response("upload_cv", r, ExceptHandler(400))
            /\ UNCHANGED <<disk, inodes>>
       ELSE /\ req' = [req EXCEPT ![r] =
                        [@ EXCEPT !.pc = "reading", !.filename = filename,
                                  !.content = content, !.user_id = user_id,
                                  !.fd = OpenInode(FilePath(filename))]]
            /\ disk' = [disk EXCEPT ![FilePath(filename)] = OpenInode(FilePath(filename))]
            /\ inodes' = OpenInodes(FilePath(filename))
            /\ last' = Response("upload_cv", r, 0)
    /\ UNCHANGED <<users, cv_files, extracted_info, nupd>>

(* What the rest of the request leaves behind when it raises. *)
Raised(r, us, fs, es, made) ==
    [ users |-> us, cv_files |-> fs, extracted_info |-> es, disk |-> disk,
      req |-> [req[r] EXCEPT !.pc = "done", !.status = ExceptHandler(0),
                             !.made_user = made[1], !.made_file = made[2],
                             !.made_info = made[3]] ]

(* os.remove(file_path) *)
RemovePath(path) == [disk EXCEPT ![path] = 0]

(* The request from buffer.write(content) to its response; none of it      *)
(* awaits, so it runs as one step.  `fault` names the commit or removal    *)
(* that raises in this run ("none": the database and the disk work).       *)
upload_cv_rest(r, written, fault) ==
    LET rq == req[r]
        path == FilePath(rq.filename)
    IN
    IF disk[path] = 0 \/ ExtractionFails(written[disk[path]])
    THEN Raised(r, users, cv_files, extracted_info, <<0, 0, 0>>)
    ELSE
    LET extracted_text == ExtractText(written[disk[path]]) IN
    IF AnalysisFails(extracted_text)
    THEN Raised(r, users, cv_files, extracted_info, <<0, 0, 0>>)
    ELSE
    LET cv_data == AnalyzeCvText(extracted_text)
        new_user == rq.user_id.ty = "none"
    IN
    IF new_user /\ fault = "commit_user"
    THEN Raised(r, users, cv_files, extracted_info, <<0, 0, 0>>)
    ELSE
    LET users1 == IF new_user THEN Append(users, NewUser(NextId(users), cv_data))
                  ELSE users
        made_user == IF new_user THEN NextId(users) ELSE 0
        user_id == IF new_user THEN Int(NextId(users)) ELSE rq.user_id
    IN
    IF fault = "commit_file"
    THEN Raised(r, users1, cv_files, extracted_info, <<made_user, 0, 0>>)
    ELSE
    LET cv_file == NewCVFile(NextId(cv_files), user_id, rq.filename, rq.content,
                             extracted_text)
        cv_files1 == Append(cv_files, cv_file)
    IN
    IF fault = "commit_info"
    THEN Raised(r, users1, cv_files1, extracted_info, <<made_user, cv_file.id, 0>>)
    ELSE
    LET info == NewExtractedInfo(NextId(extracted_info), cv_file.id, cv_data)
        infos1 == Append(extracted_info, info)
    IN
    IF fault = "remove"
    THEN Raised(r, users1, cv_files1, infos1, <<made_user, cv_file.id, info.id>>)
    ELSE
    [ users |-> users1, cv_files |-> cv_files1, extracted_info |-> infos1,
      disk |-> RemovePath(path),
      req |-> [rq EXCEPT !.pc = "done", !.status = 200, !.data = cv_data,
                         !.cv_file_id = cv_file.id,
                         !.extracted_info_id = info.id,
                         !.made_user = made_user, !.made_file = cv_file.id,
                         !.made_info = info.id] ]

(* The steps at which the environment can make the request raise. *)
FaultApplies(r, written, fault) ==
    LET path == FilePath(req[r].filename) IN
    \/ fault = "none"
    \/ /\ disk[path] # 0
       /\ ~ExtractionFails(written[disk[path]])
       /\ ~AnalysisFails(ExtractText(written[disk[path]]))
       /\ fault = "commit_user" => req[r].user_id.ty = "none"

upload_cv_resume(r, fault) ==
    /\ req[r].pc = "reading"
    /\ LET written == [inodes EXCEPT ![req[r].fd] = WriteAt0(@, req[r].content)]
           out == upload_cv_rest(r, written, fault)
       IN /\ FaultApplies(r, written, fault)
          /\ inodes' = written
          /\ users' = out.users
          /\ cv_files' = out.cv_files
          /\ extracted_info' = out.extracted_info
          /\ disk' = out.disk
          /\ req' = [req EXCEPT ![r] = [out.req EXCEPT !.fault = fault]]
          /\ last' = Response("upload_cv", r, out.req.status)
    /\ UNCHANGED nupd

(***************************************************************************)
(* Queries.  .first() without ORDER BY returns one of the matching rows;   *)
(* which one is the database's choice.                                     *)
(***************************************************************************)
CvIds == 1..(MaxUploads + 1)

(* db.query(CVFile).filter(CVFile.id == cv_id) *)
FindCVFile(cv_id) == { i \in 1..Len(cv_files) : cv_files[i].id = cv_id }

(* Mutant: the ExtractedInfo is looked up by its own id. *)
FindExtractedInfoById(cv_id) ==
    { i \in 1..Len(extracted_info) : extracted_info[i].id = cv_id }

(* db.query(ExtractedInfo).filter(ExtractedInfo.cv_file_id == cv_id) *)
FindExtractedInfo(cv_id) ==
    { i \in 1..Len(extracted_info) : extracted_info[i].cv_file_id = Int(cv_id) }

(***************************************************************************)
(* get_cv_analysis                                                         *)
(***************************************************************************)
(* json.loads(column) if column else [] *)
LoadsOrEmpty(column) == IF Truthy(column) THEN JsonLoads(column) ELSE List(<<>>)

CvFileBody(cv_file) ==
    [id |-> cv_file.id, filename |-> cv_file.filename, file_size |-> cv_file.file_size]

InfoBody(info) ==
    [ id |-> info.id,
      name |-> info.name,
      email |-> info.email,
      phone |-> info.phone,
      address |-> info.address,
      education |-> LoadsOrEmpty(info.education),
      experience |-> LoadsOrEmpty(info.experience),
      skills |-> LoadsOrEmpty(info.skills),
      languages |-> LoadsOrEmpty(info.languages) ]

get_cv_analysis(cv_id) ==
    /\ IF FindCVFile(cv_id) = {}
       THEN last' = Response("get_cv_analysis", cv_id, 404)
       ELSE IF FindExtractedInfo(cv_id) = {}
       THEN last' = Response("get_cv_analysis", cv_id, 404)
       ELSE \E f \in FindCVFile(cv_id), e \in FindExtractedInfo(cv_id) :
               last' = [Response("get_cv_analysis", cv_id, 200) EXCEPT
                           !.cv_file = CvFileBody(cv_files[f]),
                           !.extracted_info = InfoBody(extracted_info[e])]
    /\ UNCHANGED <<users, cv_files, extracted_info, disk, inodes, req, nupd>>

(***************************************************************************)
(* update_cv_info                                                          *)
(***************************************************************************)
UpdateDatas ==
    { NoUpdate,
      [NoUpdate EXCEPT !.skills = List(<<"s2", "s3">>)],
      [NoUpdate EXCEPT !.email = Str("e3"), !.languages = List(<<>>)],
      [NoUpdate EXCEPT !.cv_file_id = Int(2)],
      [NoUpdate EXCEPT !.raw_data = Str("r"), !.education = PyNone],
      [NoUpdate EXCEPT !.bogus = Str("z"), !.name = Str("n2"),
                       !.experience = Str("x")] }

(* The attributes of an ExtractedInfo object. *)
ExtractedInfoAttrs ==
    CandidateFields \cup {"id", "cv_file_id", "raw_data", "created_at"}

HasAttr(field) == field \in ExtractedInfoAttrs

(* Mutant: every attribute is assigned update_data.get(field). *)
SetAttrFromGet(old, update_data, field) ==
    IF update_data[field].ty = "absent" THEN PyNone
    ELSE IF field \in ListFields THEN JsonDumps(update_data[field])
    ELSE update_data[field]

(* One turn of the loop over update_data.items(), for the key `field`. *)
SetAttr(old, update_data, field) ==
    IF update_data[field].ty = "absent" \/ ~HasAttr(field) THEN old
    ELSE IF field \in ListFields THEN JsonDumps(update_data[field])
    ELSE update_data[field]

UpdatedInfo(info, update_data) ==
    [ id |-> info.id,
      cv_file_id |-> SetAttr(info.cv_file_id, update_data, "cv_file_id"),
      name |-> SetAttr(info.name, update_data, "name"),
      email |-> SetAttr(info.email, update_data, "email"),
      phone |-> SetAttr(info.phone, update_data, "phone"),
      address |-> SetAttr(info.address, update_data, "address"),
      education |-> SetAttr(info.education, update_data, "education"),
      experience |-> SetAttr(info.experience, update_data, "experience"),
      skills |-> SetAttr(info.skills, update_data, "skills"),
      languages |-> SetAttr(info.languages, update_data, "languages"),
      raw_data |-> SetAttr(info.raw_data, update_data, "raw_data") ]

update_cv_info(cv_id, update_data) ==
    /\ nupd < MaxUpdates
    /\ nupd' = nupd + 1
    /\ IF FindExtractedInfo(cv_id) = {}
       THEN /\ last' = [Response("update_cv_info", cv_id, 404) EXCEPT
                           !.update_data = update_data]
            /\ UNCHANGED extracted_info
       ELSE \E e \in FindExtractedInfo(cv_id) :
               /\ extracted_info' =
                     [extracted_info EXCEPT ![e] = UpdatedInfo(@, update_data)]
               /\ last' = [Response("update_cv_info", cv_id, 200) EXCEPT
                              !.update_data = update_data]
    /\ UNCHANGED <<users, cv_files, disk, inodes, req>>

(***************************************************************************)
(* list_cvs                                                                *)
(***************************************************************************)
Summary(cv, e) ==
    [ id |-> cv.id, filename |-> cv.filename, file_size |-> cv.file_size,
      name |-> IF e = 0 THEN Str("Unknown") ELSE extracted_info[e].name,
      email |-> IF e = 0 THEN Str("") ELSE extracted_info[e].email ]

(* The rows .first() can return for each CVFile (0: none). *)
FirstChoices(cv) ==
    IF FindExtractedInfo(cv.id) = {} THEN {0} ELSE FindExtractedInfo(cv.id)

list_cvs ==
    /\ \E pick \in [1..Len(cv_files) -> 0..Len(extracted_info)] :
          /\ \A i \in 1..Len(cv_files) : pick[i] \in FirstChoices(cv_files[i])
          /\ last' = [Response("list_cvs", 0, 200) EXCEPT
                         !.cvs = [i \in 1..Len(cv_files) |->
                                     Summary(cv_files[i], pick[i])]]
    /\ UNCHANGED <<users, cv_files, extracted_info, disk, inodes, req, nupd>>

Init ==
    /\ users = <<>>
    /\ cv_files = <<>>
    /\ extracted_info = <<>>
    /\ disk = [p \in Paths |-> 0]
    /\ inodes = <<>>
    /\ req = [r \in Requests |-> IdleRequest]
    /\ nupd = 0
    /\ last = Response("none", 0, 0)

Next ==
    \/ \E r \in Requests, filename \in Filenames, content \in Docs, user_id \in UserIds :
          upload_cv_open(r, filename, content, user_id)
    \/ \E r \in Requests, fault \in Faults : upload_cv_resume(r, fault)
    \/ \E cv_id \in CvIds : get_cv_analysis(cv_id)
    \/ \E cv_id \in CvIds, update_data \in UpdateDatas : update_cv_info(cv_id, update_data)
    \/ list_cvs

Spec == Init /\ [][Next]_vars

(***************************************************************************)
(* Properties                                                              *)
(***************************************************************************)
Done(r) == req[r].pc = "done"

HasRow(table, id) == \E i \in 1..Len(table) : table[i].id = id

InfoColumns ==
    {"id", "cv_file_id", "name", "email", "phone", "address", "education",
     "experience", "skills", "languages", "raw_data"}

UpdateKeys(update_data) ==
    { k \in DOMAIN update_data : update_data[k].ty # "absent" }

(* C1: an upload whose lower-cased filename ends in none of .pdf, .doc,    *)
(* .docx is answered 400, writes no file and creates no record.            *)
C1_UnsupportedTypeIs400 ==
    \A r \in Requests :
        (Done(r) /\ ~SupportedType(req[r].filename)) =>
            /\ req[r].status = 400
            /\ req[r].fd = 0
            /\ req[r].made_user = 0 /\ req[r].made_file = 0 /\ req[r].made_info = 0

(* C2: a failed upload leaves none of the User, CVFile and ExtractedInfo   *)
(* rows it would have created, and a request's CVFile row exists only      *)
(* together with that request's ExtractedInfo row.                         *)
C2_UploadAllOrNothing ==
    \A r \in Requests :
        Done(r) =>
            /\ req[r].status # 200 =>
                  /\ ~HasRow(users, req[r].made_user)
                  /\ ~HasRow(cv_files, req[r].made_file)
                  /\ ~HasRow(extracted_info, req[r].made_info)
            /\ HasRow(cv_files, req[r].made_file) =>
                  HasRow(extracted_info, req[r].made_info)

(* C3: once upload_cv has returned, no path names the file it saved.       *)
C3_TempFileDeleted ==
    \A r \in Requests :
        (Done(r) /\ req[r].fd # 0) =>
            \A path \in Paths : disk[path] # req[r].fd

(* C4: a get_cv_analysis(i) right after the successful upload that         *)
(* returned cv_file_id = i and data = d returns each of the eight fields   *)
(* equal to the field of d.                                                *)
C4_RoundTrip ==
    [][ ( /\ last.op = "upload_cv"
          /\ last.status = 200
          /\ last'.op = "get_cv_analysis"
          /\ last'.arg = req[last.arg].cv_file_id )
        => /\ last'.status = 200
           /\ \A f \in CandidateFields :
                 last'.extracted_info[f] = req[last.arg].data[f] ]_vars

(* C5: update_cv_info changes one ExtractedInfo row at most, and of that   *)
(* row only the columns that are keys of update_data; users and cv_files   *)
(* stay as they are.                                                       *)
C5_UpdateFrame ==
    [][ (last'.op = "update_cv_info" /\ nupd' # nupd) =>
          /\ users' = users
          /\ cv_files' = cv_files
          /\ Len(extracted_info') = Len(extracted_info)
          /\ \E e \in 0..Len(extracted_info) :
                \A i \in 1..Len(extracted_info) :
                    IF i = e
                    THEN \A c \in InfoColumns \ UpdateKeys(last'.update_data) :
                            extracted_info'[i][c] = extracted_info[i][c]
                    ELSE extracted_info'[i] = extracted_info[i] ]_vars

(* C5 witness: an update of skills alone has replaced a row's skills and   *)
(* left its extracted email in place.                                      *)
C5_Witness ==
    /\ last.op = "update_cv_info"
    /\ last.status = 200
    /\ UpdateKeys(last.update_data) = {"skills"}
    /\ \E i \in 1..Len(extracted_info) :
          /\ extracted_info[i].cv_file_id = Int(last.arg)
          /\ extracted_info[i].skills = JsonDumps(List(<<"s2", "s3">>))
          /\ extracted_info[i].email = Str("e1")

(* C6: update_cv_info applies the eight CandidateRecord keys only: no      *)
(* other column of any row changes, and with no ExtractedInfo for cv_id    *)
(* the answer is 404 and nothing changes.                                  *)
C6_UpdateAllowList ==
    [][ (last'.op = "update_cv_info" /\ nupd' # nupd) =>
          /\ Len(extracted_info') = Len(extracted_info)
          /\ \A i \in 1..Len(extracted_info) :
                \A c \in InfoColumns \ CandidateFields :
                    extracted_info'[i][c] = extracted_info[i][c]
          /\ (\A i \in 1..Len(extracted_info) :
                 extracted_info[i].cv_file_id # Int(last'.arg))
             => /\ last'.status = 404
                /\ extracted_info' = extracted_info ]_vars

(* C7: get_cv_analysis answers 404 exactly when no CVFile has the id or no *)
(* ExtractedInfo has it as cv_file_id; otherwise it returns that CVFile's  *)
(* metadata with the fields of one ExtractedInfo of that cv_file_id; it    *)
(* never changes the store.                                                *)
C7_GetContract ==
    [][ last'.op = "get_cv_analysis" =>
          LET cv_id == last'.arg
              files == { i \in 1..Len(cv_files) : cv_files[i].id = cv_id }
              infos == { i \in 1..Len(extracted_info) :
                            extracted_info[i].cv_file_id = Int(cv_id) }
          IN /\ UNCHANGED <<users, cv_files, extracted_info, disk, inodes>>
             /\ last'.status = 404 <=> (files = {} \/ infos = {})
             /\ last'.status # 404 =>
                   /\ last'.status = 200
                   /\ \E f \in files :
                         /\ last'.cv_file.id = cv_files[f].id
                         /\ last'.cv_file.filename = cv_files[f].filename
                         /\ last'.cv_file.file_size = cv_files[f].file_size
                   /\ \E e \in infos :
                         /\ last'.extracted_info.id = extracted_info[e].id
                         /\ \A c \in ScalarFields :
                               last'.extracted_info[c] = extracted_info[e][c]
                         /\ \A c \in ListFields :
                               JsonDumps(last'.extracted_info[c]) = extracted_info[e][c]
      ]_vars

(* C7 witness: a get answered 200 with a non-empty skills list, while      *)
(* another CVFile has no ExtractedInfo.                                    *)
C7_Witness ==
    /\ last.op = "get_cv_analysis"
    /\ last.status = 200
    /\ last.extracted_info.skills.l # <<>>
    /\ \E i \in 1..Len(cv_files) :
          \A j \in 1..Len(extracted_info) :
              extracted_info[j].cv_file_id # Int(cv_files[i].id)

(* C8: after two successful uploads into the empty store list_cvs returns  *)
(* two summaries, one per upload, with that upload's filename and the      *)
(* email of the User owning the CV.                                        *)
C8_ListOwnerEmail ==
    ( /\ last.op = "list_cvs"
      /\ nupd = 0
      /\ \A r \in {1, 2} : Done(r) /\ req[r].status = 200
      /\ Len(cv_files) = 2 )
    => /\ Len(last.cvs) = 2
       /\ \A r \in {1, 2} :
             \E k \in 1..Len(last.cvs), f \in 1..Len(cv_files) :
                /\ last.cvs[k].id = req[r].cv_file_id
                /\ last.cvs[k].filename = req[r].filename
                /\ cv_files[f].id = req[r].cv_file_id
                /\ \A u \in 1..Len(users) :
                      Int(users[u].id) = cv_files[f].user_id =>
                          last.cvs[k].email = users[u].email

(* What a request does when it runs alone. *)
AloneFails(r) ==
    \/ ExtractionFails(req[r].content)
    \/ AnalysisFails(ExtractText(req[r].content))
    \/ req[r].fault # "none"

(* C9: every upload ends as it would have ended alone: same outcome, same  *)
(* persisted text, same fields.                                            *)
C9_UploadsIndependent ==
    \A r \in Requests :
        (Done(r) /\ SupportedType(req[r].filename)) =>
            /\ req[r].status = 200 <=> ~AloneFails(r)
            /\ req[r].status = 200 =>
                  req[r].data = AnalyzeCvText(ExtractText(req[r].content))
            /\ \A i \in 1..Len(cv_files) :
                  cv_files[i].id = req[r].made_file =>
                      cv_files[i].extracted_text = ExtractText(req[r].content)

(* Every CVFile has exactly one ExtractedInfo, every ExtractedInfo a CVFile. *)
OneToOne ==
    /\ \A i \in 1..Len(cv_files) :
          Cardinality({ j \in 1..Len(extracted_info) :
                           extracted_info[j].cv_file_id = Int(cv_files[i].id) }) = 1
    /\ \A j \in 1..Len(extracted_info) :
          \E i \in 1..Len(cv_files) :
              extracted_info[j].cv_file_id = Int(cv_files[i].id)

(* C10: in every reachable state CVFile and ExtractedInfo rows are in 1:1  *)
(* association, and no row of either table is ever removed.                *)
C10_OneToOneAlways ==
    [][ /\ OneToOne'
        /\ Len(cv_files') >= Len(cv_files)
        /\ Len(extracted_info') >= Len(extracted_info)
        /\ \A i \in 1..Len(cv_files) : cv_files'[i].id = cv_files[i].id
        /\ \A j \in 1..Len(extracted_info) :
              extracted_info'[j].id = extracted_info[j].id ]_vars

====
